---------------------------- MODULE Spec2Model ----------------------------
(***************************************************************************)
(* A model of VkApiClient (src/main.py): the photo selection of            *)
(* get_profile_photos, the file-name rules of the two upload pipelines,    *)
(* status_info, and the pipelines save_photos_to_yandex_disk and           *)
(* save_photos_to_google_drive as sequences of remote calls.               *)
(*                                                                         *)
(* A behaviour is an execution of __main__ (lines 297-309): status_info,   *)
(* then the Yandex pipeline, then the Google pipeline, where an exception  *)
(* ends the process; or the tail of one, from a call of a pipeline on (a   *)
(* single call of an operation is such a tail).  The disk the process      *)
(* starts from holds manifests absent or left by an earlier execution,     *)
(* each on its own, and token.json absent or present.                      *)
(***************************************************************************)
EXTENDS Integers, Sequences, FiniteSets, TLC

(***************************************************************************)
(* Bounds of the model.                                                    *)
(***************************************************************************)
\* The longest photos.get response (number of items).
MaxPhotos == 2

(***************************************************************************)
(* Strings.                                                                *)
(***************************************************************************)
\* Python's `sub in s` on strings (line 162: self.photo_type in size['type']).
Contains(sub, s) ==
    \E i \in 1..(Len(s) - Len(sub) + 1) : SubSeq(s, i, i + Len(sub) - 1) = sub

\* list.count (lines 197 and 266: likes_counts.count(likes)).
count(list, x) == Cardinality({i \in 1..Len(list) : list[i] = x})

\* A strftime field of a fixed width: %m, %d, %H, %M, %S are zero-padded to two
\* digits.
Pad2(n) == IF n < 10 THEN "0" \o ToString(n) ELSE ToString(n)

(***************************************************************************)
(* datetime.fromtimestamp(date).strftime('%Y-%m-%d_%H-%M-%S')              *)
(* (lines 198-199 and 267).  fromtimestamp gives the naive LOCAL time of   *)
(* the process: the time zone is part of the environment the program runs  *)
(* in.  Two zones are modelled: UTC, and Europe/Moscow, whose offset went  *)
(* from +04:00 to +03:00 at 2014-10-25T22:00:00Z (the offsets below are    *)
(* those of the tz database for instants after 2011-03-26T23:00:00Z, and   *)
(* every date of the model lies after it).                                 *)
(***************************************************************************)
Zones == {"UTC", "Europe/Moscow"}

MoscowShift == 1414274400

utcoffset(zone, t) ==
    IF zone = "Europe/Moscow"
    THEN (IF t < MoscowShift THEN 14400 ELSE 10800)
    ELSE 0

\* The local time of instant t, in seconds since 1970-01-01T00:00:00 local.
fromtimestamp(t, zone) == t + utcoffset(zone, t)

\* The proleptic Gregorian date of a day number (days since 1970-01-01), as
\* <<year, month, day>>.
civil(days) ==
    LET z   == days + 719468
        era == z \div 146097
        doe == z - era * 146097
        yoe == (doe - doe \div 1460 + doe \div 36524 - doe \div 146096) \div 365
        doy == doe - (365 * yoe + yoe \div 4 - yoe \div 100)
        mp  == (5 * doy + 2) \div 153
        d   == doy - (153 * mp + 2) \div 5 + 1
        m   == IF mp < 10 THEN mp + 3 ELSE mp - 9
        y   == yoe + era * 400 + (IF m <= 2 THEN 1 ELSE 0)
    IN  <<y, m, d>>

\* strftime('%Y-%m-%d_%H-%M-%S') of a local time (years 1000..9999).
strftime(local) ==
    LET ymd == civil(local \div 86400)
        sod == local % 86400
    IN  ToString(ymd[1]) \o "-" \o Pad2(ymd[2]) \o "-" \o Pad2(ymd[3]) \o "_"
        \o Pad2(sod \div 3600) \o "-" \o Pad2((sod % 3600) \div 60) \o "-"
        \o Pad2(sod % 60)

(***************************************************************************)
(* The duplicate-name rules of the two pipelines.                          *)
(***************************************************************************)
plain_name(likes) == ToString(likes) \o "_likes.jpg"

dated_name(likes, date, zone) ==
    ToString(likes) \o "_likes__" \o strftime(fromtimestamp(date, zone))
    \o ".jpg"

\* A rule that suffixes every name.
image_name_always_dated(likes, date, counts, zone) == dated_name(likes, date, zone)

\* Lines 196-200: the Yandex pipeline suffixes when the count is not 1.
image_name_yandex(likes, date, counts, zone) ==
    IF count(counts, likes) # 1
    THEN dated_name(likes, date, zone)
    ELSE plain_name(likes)

\* A rule that suffixes from a count of 1 on.
image_name_from_one(likes, date, counts, zone) ==
    IF count(counts, likes) >= 1
    THEN dated_name(likes, date, zone)
    ELSE plain_name(likes)

\* Lines 265-268: the Google pipeline suffixes when the count is above 1.
image_name_google(likes, date, counts, zone) ==
    IF count(counts, likes) > 1
    THEN dated_name(likes, date, zone)
    ELSE plain_name(likes)

(***************************************************************************)
(* get_profile_photos (lines 159-165): for every item of the response, in  *)
(* order, for every size of the item, in order, a tuple (likes, date, url) *)
(* is appended when the configured type occurs in the size's type.         *)
(***************************************************************************)
\* An inner loop body that records a size that does not match, without a url.
select_size_or_none(image_info, size, wanted, profile_photos) ==
    IF Contains(wanted, size.type)
    THEN Append(profile_photos,
                <<image_info.likes, image_info.date, size.url>>)
    ELSE Append(profile_photos, <<image_info.likes, image_info.date, "None">>)

\* Lines 162-164: the body of the inner loop.
select_size(image_info, size, wanted, profile_photos) ==
    IF Contains(wanted, size.type)
    THEN Append(profile_photos,
                <<image_info.likes, image_info.date, size.url>>)
    ELSE profile_photos

RECURSIVE sizes_loop(_, _, _, _)
sizes_loop(image_info, j, wanted, profile_photos) ==
    IF j > Len(image_info.sizes) THEN profile_photos
    ELSE sizes_loop(image_info, j + 1, wanted,
                    select_size(image_info, image_info.sizes[j], wanted,
                                profile_photos))

RECURSIVE images_loop(_, _, _, _)
images_loop(items, i, wanted, profile_photos) ==
    IF i > Len(items) THEN profile_photos
    ELSE images_loop(items, i + 1, wanted,
                     sizes_loop(items[i], 1, wanted, profile_photos))

get_profile_photos(items, wanted) == images_loop(items, 1, wanted, <<>>)

(***************************************************************************)
(* status_info (lines 62-68).  A users.get body is a record that may lack  *)
(* the key "response"; response.get('response', []) is then the empty     *)
(* list, and [0] of an empty list raises IndexError.                       *)
(***************************************************************************)
dict_get(d, key, default) == IF key \in DOMAIN d THEN d[key] ELSE default

status_info(body) ==
    LET users == dict_get(body, "response", <<>>)
    IN  IF Len(users) = 0
        THEN [raised |-> "IndexError", key |-> "", id |-> 0]
        ELSE [raised |-> "",
              key    |-> users[1].first_name \o " " \o users[1].last_name,
              id     |-> users[1].id]

(***************************************************************************)
(* The inputs the environment supplies.                                    *)
(***************************************************************************)
\* users.get bodies: no such user, an error body, one user.
UsersBodies ==
    { [response |-> <<>>],
      [error |-> "Invalid user id"],
      [response |-> <<[first_name |-> "Ivan", last_name |-> "Petrov",
                       id |-> 1]>>] }

\* self.photo_type: the default, and the empty string (which every type
\* contains).
PhotoTypes == {"z", ""}

\* photos.get items: like count, upload date, the types of the sizes.  The two
\* dates are one hour apart, on either side of the Moscow offset change.
Kinds ==
    { [likes |-> 10, date |-> 1414272600, types |-> <<"y", "z">>],
      [likes |-> 10, date |-> 1414276200, types |-> <<"z", "z">>],
      [likes |-> 3,  date |-> 1414272600, types |-> <<"y">>],
      [likes |-> 3,  date |-> 1414276200, types |-> <<"y", "z">>] }

size_url(i, j) == "https://vk.test/" \o ToString(i) \o "/" \o ToString(j)

\* The items of a response whose i-th photo is of kind ks[i].
Items(ks) ==
    [i \in 1..Len(ks) |->
        [likes |-> ks[i].likes,
         date  |-> ks[i].date,
         sizes |-> [j \in 1..Len(ks[i].types) |->
                       [type |-> ks[i].types[j], url |-> size_url(i, j)]]]]

Responses == { Items(ks) : ks \in UNION { [1..n -> Kinds] : n \in 0..MaxPhotos } }

\* photos.get bodies: an error body (a bad token, a closed profile), or a
\* response with items.
PhotosBodies ==
    { [error |-> "Access denied"] }
    \cup { [response |-> [items |-> items]] : items \in Responses }

\* Line 159: response.json()['response']['items'] raises KeyError on a body
\* without the key.
has_items(body) == "response" \in DOMAIN body

\* The result of a remote call that raised (a network failure).
Raised == -1

\* Yandex: what GET /resources and PUT /resources answer.
ProbeResults == {200, 404, 401, Raised}
MkdirResults == {201, Raised}

\* Google: the files of the folder query, and the created folder.
FolderLists == { <<>>, <<[id |-> "F1"], [id |-> "F2"]>> }
NewFolder == [id |-> "F9"]

\* A manifest file that does not exist, and one an earlier execution left.
NoFile == [exists |-> FALSE, content |-> <<>>]
OldFile == [exists |-> TRUE,
            content |-> <<[file_name |-> "7_likes.jpg", size |-> "z"]>>]

(***************************************************************************)
(* The state.                                                              *)
(***************************************************************************)
VARIABLES
    tz,               \* the time zone of the process
    photo_type,       \* self.photo_type
    pc,               \* "idle", "ya_loop", "g_loop", "done", "raised"
    pipeline,         \* "none", "status", "yandex", "google"
    label,            \* what status_info returned or raised
    image_list,       \* line 159
    photos,           \* lines 182 and 227
    index,            \* photos the loop has consumed
    photo_info_json,  \* lines 185 and 260
    folders,          \* line 248
    folder_id,        \* lines 243-258
    calls,            \* the remote calls issued so far, in order
    ya_file,          \* photo_info_ya_disk.json
    g_file,           \* photo_info_g_drive.json
    token_file        \* token.json: "absent" or "present"

vars == <<tz, photo_type, pc, pipeline, label, image_list, photos, index,
          photo_info_json, folders, folder_id, calls, ya_file, g_file,
          token_file>>

call(op, name, ref, result) ==
    [op |-> op, name |-> name, ref |-> ref, result |-> result]

\* Lines 193 and 261.
likes_counts == [i \in 1..Len(photos) |-> photos[i][1]]

NoLabel == [raised |-> "", key |-> "", id |-> 0]

Init ==
    /\ tz \in Zones
    /\ photo_type \in PhotoTypes
    /\ pc = "idle"
    /\ pipeline = "none"
    /\ label = NoLabel
    /\ image_list = <<>>
    /\ photos = <<>>
    /\ index = 0
    /\ photo_info_json = <<>>
    /\ folders = <<>>
    /\ folder_id = ""
    /\ calls = <<>>
    /\ ya_file \in {NoFile, OldFile}
    /\ g_file \in {NoFile, OldFile}
    /\ token_file \in {"absent", "present"}

Files == <<ya_file, g_file, token_file>>
Env == <<tz, photo_type>>

\* Lines 299-307: an operation starts the process's work, or follows the
\* return of the operation __main__ calls before it.
CanStart(before) == <<pc, pipeline>> \in {<<"idle", "none">>, <<"done", before>>}

\* The locals of a pipeline when it is entered (lines 185, 243, 248).
Entered ==
    /\ label' = NoLabel
    /\ index' = 0
    /\ photo_info_json' = <<>>
    /\ UNCHANGED <<Files, Env>>

\* The exception of line 182 or 227 (get_profile_photos) leaves the method:
\* no call to the storage was issued.
FetchRaised ==
    /\ image_list' = <<>>
    /\ photos' = <<>>
    /\ calls' = <<>>
    /\ folders' = <<>>
    /\ folder_id' = ""
    /\ pc' = "raised"

(***************************************************************************)
(* print(vk_client.status_info(USER_ID)) (line 299).                       *)
(***************************************************************************)
StatusInfo ==
    /\ pc = "idle"
    /\ \E body \in UsersBodies :
          /\ label' = status_info(body)
          /\ pc' = IF label'.raised = "" THEN "done" ELSE "raised"
    /\ pipeline' = "status"
    /\ UNCHANGED <<image_list, photos, index, photo_info_json, folders,
                   folder_id, calls, Files, Env>>

\* Line 64, requests.get of users.get raises: the exception leaves
\* status_info and ends the process.
StatusInfoRaises ==
    /\ pc = "idle"
    /\ label' = [raised |-> "NetErr", key |-> "", id |-> 0]
    /\ pc' = "raised"
    /\ pipeline' = "status"
    /\ UNCHANGED <<image_list, photos, index, photo_info_json, folders,
                   folder_id, calls, Files, Env>>

(***************************************************************************)
(* save_photos_to_yandex_disk.                                             *)
(***************************************************************************)
\* A folder step that creates the folder whenever the probe is not a 200.
ya_folder_calls_unless_ok(probe, mkdir) ==
    IF probe # 200 /\ probe # Raised
    THEN <<call("ya_probe", "backup_photos", "", probe),
           call("ya_mkdir", "backup_photos", "", mkdir)>>
    ELSE <<call("ya_probe", "backup_photos", "", probe)>>

\* Lines 186-192: the calls of the folder step, given what the probe and the
\* create request answer.  The create request is issued when the probe's
\* status is 404; its own answer is not looked at.
ya_folder_calls(probe, mkdir) ==
    IF probe = 404
    THEN <<call("ya_probe", "backup_photos", "", probe),
           call("ya_mkdir", "backup_photos", "", mkdir)>>
    ELSE <<call("ya_probe", "backup_photos", "", probe)>>

\* Lines 182-193, photos.get answers.
YaBegin ==
    /\ CanStart("status")
    /\ \E body \in PhotosBodies :
          IF has_items(body)
          THEN /\ image_list' = body.response.items
               /\ photos' = get_profile_photos(body.response.items, photo_type)
               /\ calls' \in { ya_folder_calls(probe, mkdir) :
                                  probe \in ProbeResults, mkdir \in MkdirResults }
               /\ pc' = IF calls'[Len(calls')].result = Raised
                        THEN "raised" ELSE "ya_loop"
               /\ folders' = <<>> /\ folder_id' = ""
          ELSE FetchRaised
    /\ pipeline' = "yandex"
    /\ Entered

\* Line 182, requests.get of photos.get (line 158) raises.
YaFetchRaises ==
    /\ CanStart("status")
    /\ FetchRaised
    /\ pipeline' = "yandex"
    /\ Entered

\* An entry whose size is the default type, not the configured one.
manifest_entry_default_size(image_name) ==
    [file_name |-> image_name, size |-> "z"]

\* Lines 205-206 and 286.
manifest_entry(image_name) == [file_name |-> image_name, size |-> photo_type]

\* Lines 194-206, the POST answers (its answer is not looked at): the request
\* was issued, the entry is appended.
YaUpload ==
    /\ pc = "ya_loop" /\ index < Len(photos)
    /\ LET photo == photos[index + 1]
           image_name == image_name_yandex(photo[1], photo[2], likes_counts, tz)
       IN  /\ calls' = Append(calls, call("ya_upload", image_name, photo[3], 202))
           /\ photo_info_json' = Append(photo_info_json, manifest_entry(image_name))
    /\ index' = index + 1
    /\ UNCHANGED <<pc, pipeline, label, image_list, photos, folders,
                   folder_id, Files, Env>>

\* A loop that catches the exception of the POST and goes on to the next photo.
YaUploadContinues ==
    /\ pc = "ya_loop" /\ index < Len(photos)
    /\ LET photo == photos[index + 1]
           image_name == image_name_yandex(photo[1], photo[2], likes_counts, tz)
       IN  calls' = Append(calls, call("ya_upload", image_name, photo[3], Raised))
    /\ index' = index + 1
    /\ UNCHANGED <<pc, pipeline, label, image_list, photos,
                   photo_info_json, folders, folder_id, Files, Env>>

\* Lines 194-204, the POST raises: the exception leaves the method.
YaUploadRaises ==
    /\ pc = "ya_loop" /\ index < Len(photos)
    /\ LET photo == photos[index + 1]
           image_name == image_name_yandex(photo[1], photo[2], likes_counts, tz)
       IN  calls' = Append(calls, call("ya_upload", image_name, photo[3], Raised))
    /\ pc' = "raised"
    /\ UNCHANGED <<pipeline, label, image_list, photos, index,
                   photo_info_json, folders, folder_id, Files, Env>>

\* Lines 208-209.
YaWrite ==
    /\ pc = "ya_loop" /\ index = Len(photos)
    /\ ya_file' = [exists |-> TRUE, content |-> photo_info_json]
    /\ pc' = "done"
    /\ UNCHANGED <<pipeline, label, image_list, photos, index,
                   photo_info_json, folders, folder_id, calls, g_file,
                   token_file, Env>>

(***************************************************************************)
(* save_photos_to_google_drive.                                            *)
(***************************************************************************)
\* Lines 229-237: the interactive flow runs when no credentials were loaded
\* from token.json or the loaded ones are not valid.
needs_flow(token, valid) == token = "absent" \/ ~valid

\* Lines 249-258: the folder id, given the files of the query.
resolve_folder(files) == IF files # <<>> THEN files[1].id ELSE NewFolder.id

\* Lines 231-258: the calls up to the loop, given what the interactive flow,
\* the folder query and the folder create answer (Raised when they raise; an
\* exception ends the method).
g_begin_calls(token, valid, flow, files, listed, mkdir) ==
    LET auth   == IF needs_flow(token, valid)
                  THEN <<call("g_auth_flow", "credentials.json", "", flow)>>
                  ELSE <<>>
        query  == <<call("g_list", "backup_photos", "root", listed)>>
        create == <<call("g_mkdir", "backup_photos", "", mkdir)>>
    IN  IF needs_flow(token, valid) /\ flow = Raised THEN auth
        ELSE IF listed = Raised THEN auth \o query
        ELSE IF files = <<>> THEN auth \o query \o create
        ELSE auth \o query

\* Lines 227-261, photos.get answers.  Nothing here writes token.json.
GBegin ==
    /\ CanStart("yandex")
    /\ \E body \in PhotosBodies :
          IF has_items(body)
          THEN /\ image_list' = body.response.items
               /\ photos' = get_profile_photos(body.response.items, photo_type)
               /\ \E files \in FolderLists :
                     /\ calls' \in
                           { g_begin_calls(token_file, valid, flow, files,
                                           listed, mkdir) :
                               valid \in BOOLEAN, flow \in {0, Raised},
                               listed \in {Len(files), Raised},
                               mkdir \in {0, Raised} }
                     /\ pc' = IF calls'[Len(calls')].result = Raised
                              THEN "raised" ELSE "g_loop"
                     /\ folders' = IF calls'[Len(calls')].op = "g_list"
                                      /\ pc' = "g_loop"
                                   THEN files ELSE <<>>
                     /\ folder_id' = IF pc' = "raised" THEN ""
                                     ELSE resolve_folder(files)
          ELSE FetchRaised
    /\ pipeline' = "google"
    /\ Entered

\* Line 227, requests.get of photos.get (line 158) raises.
GFetchRaises ==
    /\ CanStart("yandex")
    /\ FetchRaised
    /\ pipeline' = "google"
    /\ Entered

\* Lines 262-286, both calls answer.
GUpload ==
    /\ pc = "g_loop" /\ index < Len(photos)
    /\ LET photo == photos[index + 1]
           image_name == image_name_google(photo[1], photo[2], likes_counts, tz)
       IN  /\ calls' = calls \o <<call("g_download", "", photo[3], 200),
                                  call("g_create", image_name, folder_id, 200)>>
           /\ photo_info_json' = Append(photo_info_json, manifest_entry(image_name))
    /\ index' = index + 1
    /\ UNCHANGED <<pc, pipeline, label, image_list, photos, folders,
                   folder_id, Files, Env>>

\* Lines 262-274, requests.get raises.
GDownloadRaises ==
    /\ pc = "g_loop" /\ index < Len(photos)
    /\ calls' = Append(calls, call("g_download", "", photos[index + 1][3], Raised))
    /\ pc' = "raised"
    /\ UNCHANGED <<pipeline, label, image_list, photos, index,
                   photo_info_json, folders, folder_id, Files, Env>>

\* Lines 262-281, files().create(...).execute() raises.
GCreateRaises ==
    /\ pc = "g_loop" /\ index < Len(photos)
    /\ LET photo == photos[index + 1]
           image_name == image_name_google(photo[1], photo[2], likes_counts, tz)
       IN  calls' = calls \o <<call("g_download", "", photo[3], 200),
                               call("g_create", image_name, folder_id, Raised)>>
    /\ pc' = "raised"
    /\ UNCHANGED <<pipeline, label, image_list, photos, index,
                   photo_info_json, folders, folder_id, Files, Env>>

\* Lines 288-289.
GWrite ==
    /\ pc = "g_loop" /\ index = Len(photos)
    /\ g_file' = [exists |-> TRUE, content |-> photo_info_json]
    /\ pc' = "done"
    /\ UNCHANGED <<pipeline, label, image_list, photos, index,
                   photo_info_json, folders, folder_id, calls, ya_file,
                   token_file, Env>>

Next ==
    \/ StatusInfo \/ StatusInfoRaises
    \/ YaBegin \/ YaFetchRaises \/ YaUpload \/ YaUploadRaises \/ YaWrite
    \/ GBegin \/ GFetchRaises \/ GUpload \/ GDownloadRaises \/ GCreateRaises
    \/ GWrite

Spec == Init /\ [][Next]_vars

(***************************************************************************)
(* Helpers of the properties.                                              *)
(***************************************************************************)
InPipeline == pipeline \in {"yandex", "google"}

\* The upload requests issued so far: the Yandex POST, the Drive file create.
uploads == SelectSeq(calls, LAMBDA c : c.op \in {"ya_upload", "g_create"})

HasRaised(cs) == \E i \in 1..Len(cs) : cs[i].result = Raised

Positions(op) == {i \in 1..Len(calls) : calls[i].op = op}

RemoveAt(s, i) == SubSeq(s, 1, i - 1) \o SubSeq(s, i + 1, Len(s))

NoMatch(image_info) ==
    \A j \in 1..Len(image_info.sizes) :
        ~Contains(photo_type, image_info.sizes[j].type)

Shared(i) == \E j \in 1..Len(photos) : j # i /\ photos[j][1] = photos[i][1]

PriorFiles == {NoFile, OldFile}

(***************************************************************************)
(* C1.  In a pipeline run, at every iteration boundary of the per-photo    *)
(* loop (and after it), the manifest list has exactly one entry for every  *)
(* upload request issued, in order: entry i carries the name of upload i,  *)
(* which is the upload of photo i, and the configured type as its size.    *)
(* In no state is there an entry without its upload request.               *)
(***************************************************************************)
C1_ManifestMatchesUploads ==
    InPipeline =>
        /\ Len(photo_info_json) <= Len(uploads)
        /\ \A i \in 1..Len(photo_info_json) :
              /\ photo_info_json[i].file_name = uploads[i].name
              /\ photo_info_json[i].size = photo_type
        /\ pc \in {"ya_loop", "g_loop", "done"} =>
              /\ Len(photo_info_json) = Len(uploads)
              /\ Len(uploads) = index
        /\ pipeline = "yandex" =>
              \A i \in 1..Len(uploads) : uploads[i].ref = photos[i][3]

C1_Witness ==
    /\ pc = "g_loop"
    /\ Len(photo_info_json) = 2
    /\ index < Len(photos)
    /\ photo_info_json[1].file_name # photo_info_json[2].file_name

(***************************************************************************)
(* C2.  When two photos of the set share a like count, every uploaded      *)
(* photo with a shared like count is named                                 *)
(* "<likes>_likes__<timestamp>.jpg" with the timestamp of its own upload   *)
(* time, and two uploaded photos whose upload times differ have different  *)
(* names.                                                                  *)
(***************************************************************************)
C2_DatedNamesDistinct ==
    InPipeline =>
        /\ \A i \in 1..Len(uploads) :
              Shared(i) =>
                  uploads[i].name =
                      ToString(photos[i][1]) \o "_likes__"
                      \o strftime(fromtimestamp(photos[i][2], tz)) \o ".jpg"
        /\ \A i, j \in 1..Len(uploads) :
              photos[i][2] # photos[j][2] => uploads[i].name # uploads[j].name

(***************************************************************************)
(* C3.  When the like counts of the photo set are pairwise distinct, every *)
(* name a pipeline uploads under is "<likes>_likes.jpg".                   *)
(***************************************************************************)
C3_PlainNames ==
    (InPipeline /\ \A i \in 1..Len(photos) : ~Shared(i)) =>
        \A i \in 1..Len(uploads) :
            uploads[i].name = ToString(photos[i][1]) \o "_likes.jpg"

C3_Witness ==
    /\ pipeline = "google"
    /\ Len(photos) >= 2
    /\ \A i \in 1..Len(photos) : ~Shared(i)
    /\ Len(uploads) = Len(photos)

(***************************************************************************)
(* C4.  get_profile_photos returns at most one record per photo of the     *)
(* response, in response order.                                            *)
(***************************************************************************)
C4_AtMostOnePerPhoto ==
    InPipeline =>
        /\ Len(photos) <= Len(image_list)
        /\ \A i \in 1..Len(image_list) :
              Cardinality({k \in 1..Len(photos) :
                              \E j \in 1..Len(image_list[i].sizes) :
                                  photos[k][3] = image_list[i].sizes[j].url}) <= 1

(***************************************************************************)
(* C5.  A photo of the response none of whose sizes matches the configured *)
(* type contributes nothing: the photo set is the photo set of the         *)
(* response without that photo, and it is one record shorter than the      *)
(* photo set of the response in which that photo has one matching size.    *)
(***************************************************************************)
C5_UnmatchedPhotoSkipped ==
    InPipeline =>
        \A i \in 1..Len(image_list) :
            NoMatch(image_list[i]) =>
                /\ photos = get_profile_photos(RemoveAt(image_list, i), photo_type)
                /\ Len(photos) + 1 =
                      Len(get_profile_photos(
                            [image_list EXCEPT ![i].sizes =
                                <<[type |-> photo_type, url |-> "u"]>>],
                            photo_type))

C5_Witness ==
    /\ pc \in {"ya_loop", "g_loop"}
    /\ Len(image_list) = 2
    /\ NoMatch(image_list[1])
    /\ ~NoMatch(image_list[2])
    /\ Len(photos) = 1

(***************************************************************************)
(* C6.  status_info on a users.get body with an empty or missing result    *)
(* list ends in a "user not found" error, not in an index failure: when    *)
(* status_info raised and users.get had answered (the request itself did   *)
(* not raise), the error is "user not found".                              *)
(***************************************************************************)
C6_UserNotFound ==
    (pipeline = "status" /\ pc = "raised" /\ label.raised # "NetErr") =>
        label.raised = "UserNotFound"

(***************************************************************************)
(* C7.  After a Google run that performed the interactive authorization    *)
(* flow, token.json exists.                                                *)
(***************************************************************************)
C7_TokenPersisted ==
    (pipeline = "google" /\ pc = "done" /\ Positions("g_auth_flow") # {}) =>
        token_file = "present"

(***************************************************************************)
(* C8.  A call that raises ends the pipeline: it is the last call issued,  *)
(* so no upload request follows it, and the pipeline's manifest file keeps *)
(* what it held before the process started.  A pipeline's manifest file is *)
(* written only when the pipeline ends with nothing raised, after the last *)
(* photo, with one entry per photo; until a pipeline is entered its file   *)
(* is the prior one.                                                       *)
(***************************************************************************)
C8_AbortKeepsManifest ==
    /\ HasRaised(calls) =>
          /\ pc = "raised"
          /\ \A i \in 1..Len(calls) : calls[i].result = Raised => i = Len(calls)
    /\ pipeline \in {"none", "status"} => ya_file \in PriorFiles
    /\ pipeline # "google" => g_file \in PriorFiles
    /\ (pipeline = "yandex" /\ pc # "done") => ya_file \in PriorFiles
    /\ (pipeline = "google" /\ pc # "done") => g_file \in PriorFiles
    /\ (pc = "done" /\ InPipeline) =>
          /\ index = Len(photos)
          /\ Len(photo_info_json) = Len(photos)
          /\ pipeline = "yandex" => ya_file.content = photo_info_json
          /\ pipeline = "google" => g_file.content = photo_info_json

C8_Witness ==
    /\ pc = "raised"
    /\ pipeline = "google"
    /\ index = 1
    /\ Len(photos) = 3
    /\ Len(uploads) = 2
    /\ g_file = OldFile

(***************************************************************************)
(* C9.  The backup folder is resolved once, before any upload.  Yandex:    *)
(* a pipeline that reached its loop issued calls; the first call is the    *)
(* one probe, and the create request is issued (once, right after the      *)
(* probe) exactly when the probe answered 404.  Google: at most one folder *)
(* query, and exactly one in a pipeline that reached its loop, created the *)
(* folder or downloaded a photo; the create request is issued (once, right *)
(* after the query, before any upload) exactly when the query matched      *)
(* nothing; every file is created under the folder id of this run, the     *)
(* first match or the new folder's id.  A pipeline that raises before the  *)
(* folder is resolved issues no upload.                                    *)
(***************************************************************************)
C9_FolderResolvedOnce ==
    /\ (pipeline = "yandex" /\ pc \in {"ya_loop", "done"}) => calls # <<>>
    /\ (pipeline = "yandex" /\ calls # <<>>) =>
          /\ Positions("ya_probe") = {1}
          /\ Positions("ya_mkdir") = (IF calls[1].result = 404 THEN {2} ELSE {})
    /\ pipeline = "google" =>
          /\ Cardinality(Positions("g_list")) <= 1
          /\ (pc \in {"g_loop", "done"} \/ Positions("g_mkdir") # {}
              \/ Positions("g_download") # {}) =>
                Cardinality(Positions("g_list")) = 1
          /\ \A i \in Positions("g_list") :
                /\ Positions("g_mkdir") =
                      (IF calls[i].result = 0 THEN {i + 1} ELSE {})
                /\ \A k \in Positions("g_create") \cup Positions("g_download") :
                      k > i + Cardinality(Positions("g_mkdir"))
                /\ calls[i].result # Raised => calls[i].result = Len(folders)
          /\ pc \in {"g_loop", "done"} =>
                folder_id = (IF Len(folders) > 0 THEN folders[1].id
                             ELSE NewFolder.id)
          /\ \A k \in Positions("g_create") :
                /\ calls[k].ref = folder_id
                /\ folder_id \in {folders[j].id : j \in 1..Len(folders)}
                                 \cup {NewFolder.id}

C9_Witness ==
    /\ pipeline = "yandex"
    /\ pc = "ya_loop"
    /\ Len(calls) >= 3
    /\ calls[1].result = 404
    /\ calls[2].op = "ya_mkdir"
    /\ calls[3].op = "ya_upload"

(***************************************************************************)
(* C10.  The two duplicate-name rules resolve the same names: the name a   *)
(* pipeline uploads a photo under is the name the other pipeline's rule    *)
(* resolves for that photo of the same set.                                *)
(***************************************************************************)
C10_RulesAgree ==
    /\ pipeline = "yandex" =>
          \A i \in 1..Len(uploads) :
              uploads[i].name =
                  image_name_google(photos[i][1], photos[i][2], likes_counts, tz)
    /\ pipeline = "google" =>
          \A i \in 1..Len(uploads) :
              uploads[i].name =
                  image_name_yandex(photos[i][1], photos[i][2], likes_counts, tz)

C10_Witness ==
    /\ pipeline = "yandex"
    /\ Len(uploads) = 3
    /\ Shared(1) /\ ~Shared(3)
    /\ uploads[1].name # plain_name(photos[1][1])
    /\ uploads[3].name = plain_name(photos[3][1])
=============================================================================
